---- MODULE Spec2Model ----
(***************************************************************************)
(* HoloMail backend (src/main.py): the email store with its create / bulk  *)
(* update / list handlers, the registry of open websockets and the         *)
(* broadcast that fans a notification event out to them.                   *)
(*                                                                         *)
(* Encoding of Python values:                                              *)
(*   text (subject, sender, body, preview, q)  a sequence of characters    *)
(*   Optional[x]                               <<>> for None, <<x>> else   *)
(*   a document                                a function from field names *)
(*                                             to values; a field the      *)
(*                                             document lacks is not in    *)
(*                                             its DOMAIN                  *)
(*   ObjectId                                  a positive integer          *)
(*   datetime                                  [utc |-> n]                 *)
(***************************************************************************)
EXTENDS Integers, Sequences, FiniteSets, TLC

VARIABLES
    emails,              \* db["email"]: the documents, in insertion order
    db,                  \* db["tag"], db["folder"], db["event"]: likewise
    clock,               \* the wall clock read by datetime.now(timezone.utc)
    active_connections,  \* main.py:62, the list of registered websockets
    ws,                  \* per websocket: position of websocket_endpoint, link, and the
                         \* frames its client has received while the endpoint runs
    req,                 \* per request slot: position and locals of the running handler
    nreq                 \* number of mutation requests accepted so far

vars == <<emails, db, clock, active_connections, ws, req, nreq>>

\* ------------------------------------------------------------------ bounds
MaxWS == 2
MaxHandlers == 2
MaxRequests == 3
MaxEmails == 2
MaxDocs == 1

\* ------------------------------------------------------- program constants
PreviewLen == 140
DefaultLimit == 20

W == 1..MaxWS
H == 1..MaxHandlers

\* ------------------------------------------------------------------ values
None == <<>>
Some(x) == <<x>>
Range(s) == {s[i] : i \in DOMAIN s}
Min(a, b) == IF a < b THEN a ELSE b

\* `not x` is false for a non-empty string only (None and "" are both falsy).
TruthyText(o) == o /= None /\ o[1] /= <<>>
TruthyStr(o) == o /= None /\ o[1] /= ""

\* s[:n]
Take(s, n) == SubSeq(s, 1, Min(n, Len(s)))

\* Identifier strings and the ObjectId each one parses to; "bad" is no ObjectId.
IdStr == <<"id1", "id2", "id3", "id4", "id5">>
WellFormed(s) == \E n \in DOMAIN IdStr : IdStr[n] = s
\* str(ObjectId)
oid_str(n) == IdStr[n]
to_object_id(s) == CHOOSE n \in DOMAIN IdStr : IdStr[n] = s

DateTime(n) == [utc |-> n]
isoformat(d) == <<"iso8601", d.utc>>
DateTimeFields == {"received_at"}

serialize_doc(doc) ==
    LET d == [k \in (DOMAIN doc \ {"_id"}) \cup {"id"} |->
                 IF k = "id" THEN oid_str(doc["_id"]) ELSE doc[k]]
    IN  [k \in DOMAIN d |->
            IF k \in DateTimeFields THEN isoformat(d[k]) ELSE d[k]]

\* ------------------------------------------------------- the document store
\* insert_one: the store assigns the next identifier; returns the new collection.
insert_one(coll, data) == Append(coll, ("_id" :> (Len(coll) + 1)) @@ data)

\* create_document(collection, data): insert and return str(inserted_id).
create_document(coll, data) ==
    [coll |-> insert_one(coll, data), inserted_id |-> oid_str(Len(coll) + 1)]

find_one(coll, oid) ==
    IF \E i \in DOMAIN coll : coll[i]["_id"] = oid
    THEN Some(coll[CHOOSE i \in DOMAIN coll : coll[i]["_id"] = oid])
    ELSE None

\* $addToSet behaving as $push.
ApplyUpdate_push(doc, u) ==
    CASE u.op = "$set" -> u.fields @@ doc
      [] u.op = "$addToSet" -> [doc EXCEPT !["tags"] = Append(@, u.value)]
      [] u.op = "$pull" -> [doc EXCEPT !["tags"] = SelectSeq(@, LAMBDA x : x /= u.value)]

\* One update document applied to one stored document.
ApplyUpdate(doc, u) ==
    CASE u.op = "$set" -> u.fields @@ doc
      [] u.op = "$addToSet" ->
            [doc EXCEPT !["tags"] = IF u.value \in Range(@) THEN @ ELSE Append(@, u.value)]
      [] u.op = "$pull" ->
            [doc EXCEPT !["tags"] = SelectSeq(@, LAMBDA x : x /= u.value)]

\* modified_count reporting the documents the filter matched.
update_many_matched(coll, ids, u) ==
    LET hit(i) == coll[i]["_id"] \in Range(ids)
        new == [i \in DOMAIN coll |-> IF hit(i) THEN ApplyUpdate(coll[i], u) ELSE coll[i]]
    IN  [coll |-> new,
         modified_count |-> Cardinality({i \in DOMAIN coll : hit(i)})]

\* update_many with an empty filter: every document is updated.
update_many_unfiltered(coll, ids, u) ==
    LET new == [i \in DOMAIN coll |-> ApplyUpdate(coll[i], u)]
    IN  [coll |-> new,
         modified_count |-> Cardinality({i \in DOMAIN coll : new[i] /= coll[i]})]

\* update_many({"_id": {"$in": ids}}, update)
update_many(coll, ids, u) ==
    LET hit(i) == coll[i]["_id"] \in Range(ids)
        new == [i \in DOMAIN coll |-> IF hit(i) THEN ApplyUpdate(coll[i], u) ELSE coll[i]]
    IN  [coll |-> new,
         modified_count |-> Cardinality({i \in DOMAIN coll : new[i] /= coll[i]})]

\* ------------------------------------------------------------ list_emails
lower(c) == CASE c = "H" -> "h" [] c = "A" -> "a" [] c = "Z" -> "z" [] OTHER -> c
lower_text(s) == [i \in DOMAIN s |-> lower(s[i])]

\* {"$regex": q, "$options": "i"} for a q without metacharacters: q occurs in s,
\* letter case ignored.
regex_i(q, s) ==
    \E i \in 0..(Len(s) - Len(q)) :
        SubSeq(lower_text(s), i + 1, i + Len(q)) = lower_text(q)

\* The regex against a required text field, and against an Optional one (null never
\* matches).
field_regex_i(doc, k, q) == regex_i(q, doc[k])
opt_field_regex_i(doc, k, q) == doc[k] /= None /\ regex_i(q, doc[k][1])

\* filter_dict starting empty, without the is_deleted clause.
Matches_deleted_too(doc, p) ==
    /\ TruthyStr(p.folder) => doc["folder"] = p.folder[1]
    /\ TruthyStr(p.tag) => p.tag[1] \in Range(doc["tags"])
    /\ p.is_read /= None => doc["is_read"] = p.is_read[1]
    /\ TruthyText(p.q) =>
          \/ field_regex_i(doc, "subject", p.q[1])
          \/ field_regex_i(doc, "sender", p.q[1])
          \/ opt_field_regex_i(doc, "preview", p.q[1])

\* filter_dict of list_emails, evaluated on one document.
Matches(doc, p) ==
    /\ ~("is_deleted" \in DOMAIN doc /\ doc["is_deleted"] = TRUE)
    /\ TruthyStr(p.folder) => doc["folder"] = p.folder[1]
    /\ TruthyStr(p.tag) => p.tag[1] \in Range(doc["tags"])
    /\ p.is_read /= None => doc["is_read"] = p.is_read[1]
    /\ TruthyText(p.q) =>
          \/ field_regex_i(doc, "subject", p.q[1])
          \/ field_regex_i(doc, "sender", p.q[1])
          \/ opt_field_regex_i(doc, "preview", p.q[1])

\* find(filter): the matching documents, in collection order.
find(coll, p) == SelectSeq(coll, LAMBDA d : Matches(d, p))

\* sort("received_at", -1): most recent first.
RECURSIVE sort_desc(_)
sort_desc(s) ==
    IF s = <<>> THEN <<>>
    ELSE LET i == CHOOSE i \in DOMAIN s :
                     \A j \in DOMAIN s :
                        \/ s[j]["received_at"].utc < s[i]["received_at"].utc
                        \/ (s[j]["received_at"].utc = s[i]["received_at"].utc /\ i <= j)
         IN  <<s[i]>> \o sort_desc(SubSeq(s, 1, i - 1) \o SubSeq(s, i + 1, Len(s)))

\* skip(n)
skip(s, n) == SubSeq(s, n + 1, Len(s))
\* limit(n): 0 means no limit.
limit(s, n) == IF n = 0 THEN s ELSE Take(s, n)

\* [serialize_doc(d) for d in cursor]
serialize_all(s) == [i \in DOMAIN s |-> serialize_doc(s[i])]

\* The response of list_emails; a negative skip is refused by the driver.
list_emails(coll, p) ==
    IF (p.page - 1) * p.limit < 0
    THEN [status |-> "error"]
    ELSE [status |-> "ok",
          items |-> serialize_all(limit(skip(sort_desc(find(coll, p)),
                                              (p.page - 1) * p.limit), p.limit)),
          page |-> p.page,
          limit |-> p.limit]

\* ------------------------------------------------------------ broadcast
\* A request slot.  pc, payload, result, cur, idx, removable and response are the
\* handler's position and locals; the rest is history kept for the properties:
\* bid numbers the request, after holds the requests that had returned when it
\* started, wrote says its store write succeeded, emitted holds the events handed
\* to broadcast, snap the list as broadcast found it, attempted the websockets whose
\* send_json has ended, absent the websockets of removable that the removal loop did
\* not find in the list.
Idle ==
    [pc |-> "idle", bid |-> 0, after |-> {}, payload |-> [kind |-> "none"], wrote |-> FALSE,
     emitted |-> <<>>, cur |-> 0, idx |-> 0, removable |-> <<>>,
     snap |-> <<>>, attempted |-> <<>>, absent |-> {},
     result |-> [status |-> "none"], response |-> [status |-> "none"]]

\* list.remove(x): drops the first occurrence; the ValueError for an absent x is
\* swallowed by the caller's try/except.
remove(s, x) ==
    IF x \in Range(s)
    THEN LET i == CHOOSE i \in DOMAIN s : s[i] = x /\ \A j \in 1..(i - 1) : s[j] /= x
         IN  SubSeq(s, 1, i - 1) \o SubSeq(s, i + 1, Len(s))
    ELSE s

\* The removal loop stopping after its first websocket.
remove_all_first_only(conns, removable) ==
    IF removable = <<>> THEN conns ELSE remove(conns, Head(removable))

\* The removal loop with its try around the whole loop: the ValueError of an absent
\* websocket ends the loop.
RECURSIVE remove_all_stops_at_absent(_, _)
remove_all_stops_at_absent(conns, removable) ==
    IF removable = <<>> \/ Head(removable) \notin Range(conns) THEN conns
    ELSE remove_all_stops_at_absent(remove(conns, Head(removable)), Tail(removable))

\* main.py:52-56, the removal loop after the sweep.
RECURSIVE remove_all(_, _)
remove_all(conns, removable) ==
    IF removable = <<>> THEN conns
    ELSE remove_all(remove(conns, Head(removable)), Tail(removable))

\* The removal loop running over every websocket the sweep sent to.
broadcast_next_evicts_attempted(r, conns) ==
    IF r.idx < Len(conns)
    THEN [req |-> [r EXCEPT !.pc = "sending", !.cur = conns[r.idx + 1], !.idx = r.idx + 1],
          conns |-> conns]
    ELSE [req |-> [r EXCEPT !.pc = "done", !.cur = 0, !.response = r.result,
                            !.absent = Range(r.removable) \ Range(conns)],
          conns |-> remove_all(conns, r.attempted)]

\* The head of `for ws in active_connections`: the list iterator yields the item at
\* its index in the list as it is now and suspends in send_json on it; when the
\* index is past the end the removal loop runs and the handler returns its response.
broadcast_next(r, conns) ==
    IF r.idx < Len(conns)
    THEN [req |-> [r EXCEPT !.pc = "sending", !.cur = conns[r.idx + 1], !.idx = r.idx + 1],
          conns |-> conns]
    ELSE [req |-> [r EXCEPT !.pc = "done", !.cur = 0, !.response = r.result,
                            !.absent = Range(r.removable) \ Range(conns)],
          conns |-> remove_all(conns, r.removable)]

\* broadcast(event) up to its first suspension.
broadcast(r, event, conns) ==
    broadcast_next([r EXCEPT !.emitted = Append(@, event), !.removable = <<>>,
                             !.idx = 0, !.snap = conns], conns)

\* A send failure that is not caught and ends the handler.
send_failed_propagates(r, w) == [r EXCEPT !.pc = "done", !.response = [status |-> "error"]]

\* ws.send_json raised: main.py:50-51.
send_failed(r, w) == [r EXCEPT !.removable = Append(@, w)]

\* ------------------------------------------------------------ websocket_endpoint
Registered(w) == w \in Range(active_connections)

Connected == [type |-> "connected", message |-> "Realtime channel ready"]

\* A frame as the client sees it: the event and the broadcast it came from (0 for the
\* greeting).
Frame(bid, event) == [bid |-> bid, event |-> event]

\* send_json succeeds on a websocket whose client is still there and whose endpoint
\* has not returned; otherwise it raises.
CanSend(w) == ws[w].alive /\ ws[w].pc \in {"greeting", "receiving"}

\* The client of an accepted websocket goes away (or its link breaks): nothing on
\* the server has noticed yet.
ClientDisconnect(w) ==
    /\ ws[w].pc \in {"greeting", "receiving"}
    /\ ws[w].alive
    /\ ws' = [ws EXCEPT ![w].alive = FALSE]
    /\ UNCHANGED <<emails, db, clock, active_connections, req, nreq>>

\* main.py:67-68: accept() returns and the websocket is appended to the list; the
\* endpoint is then suspended in the send of the greeting.
Accept(w) ==
    /\ ws[w].pc = "new"
    /\ active_connections' = Append(active_connections, w)
    /\ ws' = [ws EXCEPT ![w].pc = "greeting"]
    /\ UNCHANGED <<emails, db, clock, req, nreq>>

\* The endpoint returning without its finally.
endpoint_finally_keeps(conns, w) == conns

\* main.py:76-78, the finally of the endpoint: the websocket leaves the list if it
\* is in it, and the endpoint returns.  found keeps what `websocket in
\* active_connections` answered.
endpoint_finally(conns, w) == IF w \in Range(conns) THEN remove(conns, w) ELSE conns
Closed == [pc |-> "closed", alive |-> FALSE, inbox |-> <<>>, found |-> FALSE]

\* The endpoint registering its websocket once the greeting is out, with the
\* append before the greeting still in place.
SendConnected_registers(w) ==
    /\ ws[w].pc = "greeting"
    /\ IF ws[w].alive
       THEN /\ ws' = [ws EXCEPT ![w].pc = "receiving",
                                ![w].inbox = Append(@, Frame(0, Connected))]
            /\ active_connections' = Append(active_connections, w)
       ELSE /\ ws' = [ws EXCEPT ![w] = [Closed EXCEPT !.found = Registered(w)]]
            /\ active_connections' = endpoint_finally(active_connections, w)
    /\ UNCHANGED <<emails, db, clock, req, nreq>>

\* main.py:70: the greeting is sent and the endpoint waits in receive_text(); a
\* failed send leaves through the finally, main.py:76-78.
SendConnected(w) ==
    /\ ws[w].pc = "greeting"
    /\ IF ws[w].alive
       THEN /\ ws' = [ws EXCEPT ![w].pc = "receiving",
                                ![w].inbox = Append(@, Frame(0, Connected))]
            /\ UNCHANGED active_connections
       ELSE /\ ws' = [ws EXCEPT ![w] = [Closed EXCEPT !.found = Registered(w)]]
            /\ active_connections' = endpoint_finally(active_connections, w)
    /\ UNCHANGED <<emails, db, clock, req, nreq>>

\* main.py:73-78: receive_text() raises WebSocketDisconnect; the finally removes the
\* websocket if it is still in the list.  (A text frame from a live client is read
\* and dropped: no state changes.)
Disconnect(w) ==
    /\ ws[w].pc = "receiving"
    /\ ~ws[w].alive
    /\ ws' = [ws EXCEPT ![w] = [Closed EXCEPT !.found = Registered(w)]]
    /\ active_connections' = endpoint_finally(active_connections, w)
    /\ UNCHANGED <<emails, db, clock, req, nreq>>

\* main.py:47-56, one resumption of broadcast: the pending send_json to r.cur ends
\* (delivered, or raised and noted in removable), and the loop runs on to its next
\* suspension or to the end of broadcast and of the handler.
BroadcastSend(h) ==
    LET r == req[h]
        w == r.cur
        r1 == [r EXCEPT !.attempted = Append(@, w)]
        r2 == IF CanSend(w) THEN r1 ELSE send_failed(r1, w)
        nx == broadcast_next(r2, active_connections)
    IN  /\ r.pc = "sending"
        /\ ws' = IF CanSend(w)
                 THEN [ws EXCEPT ![w].inbox = Append(@, Frame(r.bid, r.emitted[1]))]
                 ELSE ws
        /\ IF r2.pc = "sending"
           THEN /\ req' = [req EXCEPT ![h] = nx.req]
                /\ active_connections' = nx.conns
           ELSE /\ req' = [req EXCEPT ![h] = r2]
                /\ UNCHANGED active_connections
        /\ UNCHANGED <<emails, db, clock, nreq>>

\* ------------------------------------------------------------ create_email
\* The preview derived from the body whether or not one was supplied.
email_data_overwrites(p, now) ==
    LET preview == IF TruthyText(p.body)
                   THEN Some(Take(p.body[1], PreviewLen))
                   ELSE p.preview
    IN  [subject |-> p.subject, sender |-> p.sender, recipient |-> p.recipient,
         body |-> p.body, preview |-> preview, folder |-> p.folder,
         tags |-> p.tags, is_read |-> p.is_read, received_at |-> DateTime(now)]

\* main.py:187-191: model_dump() of the payload, the derived preview and received_at.
email_data(p, now) ==
    LET preview == IF ~TruthyText(p.preview) /\ TruthyText(p.body)
                   THEN Some(Take(p.body[1], PreviewLen))
                   ELSE p.preview
    IN  [subject |-> p.subject, sender |-> p.sender, recipient |-> p.recipient,
         body |-> p.body, preview |-> preview, folder |-> p.folder,
         tags |-> p.tags, is_read |-> p.is_read, received_at |-> DateTime(now)]

\* A handler starts on payload p.
NewRequest(p) ==
    [Idle EXCEPT !.bid = nreq + 1, !.payload = p,
                 !.after = {req[g].bid : g \in {g \in H : req[g].pc = "done"}}]

\* The handler failed with an unhandled exception: the caller gets an error response.
raised(r) == [r EXCEPT !.pc = "done", !.response = [status |-> "error"]]

\* The handler notifying although its store call raised.
store_raised_notifies(r, event, conns) ==
    LET b == broadcast(r, event, conns)
    IN  [req |-> [b.req EXCEPT !.result = [status |-> "error"],
                               !.response = IF b.req.pc = "done"
                                            THEN [status |-> "error"] ELSE @],
         conns |-> b.conns]

\* The store call of a handler raised (main.py:192, main.py:229): the exception
\* leaves the handler before it reaches its broadcast.
store_raised(r, event, conns) == [req |-> raised(r), conns |-> conns]

\* main.py:186-196.  store_ok = FALSE: the store refuses the insert and
\* create_document raises.
create_email(h, p, store_ok) ==
    LET r0 == NewRequest(p)
        cd == create_document(emails, email_data(p, clock))
        doc == find_one(cd.coll, to_object_id(cd.inserted_id))[1]
        serialized == serialize_doc(doc)
        r1 == [r0 EXCEPT !.wrote = TRUE,
                         !.result = [status |-> "ok", id |-> cd.inserted_id,
                                     email |-> serialized]]
        ev == [type |-> "email_created", email |-> serialized]
        b == broadcast(r1, ev, active_connections)
    IN  /\ req[h].pc = "idle"
        /\ nreq < MaxRequests
        /\ nreq' = nreq + 1
        /\ clock' = clock + 1
        /\ IF store_ok
           THEN /\ Len(emails) < MaxEmails
                /\ emails' = cd.coll
                /\ req' = [req EXCEPT ![h] = b.req]
                /\ active_connections' = b.conns
           ELSE /\ req' = [req EXCEPT ![h] = store_raised(r0, ev, active_connections).req]
                /\ active_connections' = store_raised(r0, ev, active_connections).conns
                /\ UNCHANGED emails
        /\ UNCHANGED <<db, ws>>

\* ------------------------------------------------------------ bulk_update
\* archive taking the email out of the trash as well.
bulk_action_update_archive_restores(p) ==
    CASE p.action = "archive" ->
            Some([op |-> "$set",
                  fields |-> [is_archived |-> TRUE, folder |-> "archive", is_deleted |-> FALSE]])
      [] p.action = "delete" ->
            Some([op |-> "$set", fields |-> [is_deleted |-> TRUE, folder |-> "trash"]])
      [] p.action = "mark_read" -> Some([op |-> "$set", fields |-> [is_read |-> TRUE]])
      [] p.action = "mark_unread" -> Some([op |-> "$set", fields |-> [is_read |-> FALSE]])
      [] p.action = "move_folder" /\ TruthyStr(p.folder) ->
            Some([op |-> "$set", fields |-> [folder |-> p.folder[1]]])
      [] p.action = "add_tag" /\ TruthyStr(p.tag) ->
            Some([op |-> "$addToSet", value |-> p.tag[1]])
      [] p.action = "remove_tag" /\ TruthyStr(p.tag) ->
            Some([op |-> "$pull", value |-> p.tag[1]])
      [] OTHER -> None

\* The if/elif chain without its final else: the last update stands for every
\* other action.
bulk_action_update_no_else(p) ==
    CASE p.action = "archive" ->
            Some([op |-> "$set", fields |-> [is_archived |-> TRUE, folder |-> "archive"]])
      [] p.action = "delete" ->
            Some([op |-> "$set", fields |-> [is_deleted |-> TRUE, folder |-> "trash"]])
      [] p.action = "mark_read" -> Some([op |-> "$set", fields |-> [is_read |-> TRUE]])
      [] p.action = "move_folder" /\ TruthyStr(p.folder) ->
            Some([op |-> "$set", fields |-> [folder |-> p.folder[1]]])
      [] p.action = "add_tag" /\ TruthyStr(p.tag) ->
            Some([op |-> "$addToSet", value |-> p.tag[1]])
      [] p.action = "remove_tag" /\ TruthyStr(p.tag) ->
            Some([op |-> "$pull", value |-> p.tag[1]])
      [] OTHER -> Some([op |-> "$set", fields |-> [is_read |-> FALSE]])

\* main.py:211-227: the update document of the action, None for the else branch.
bulk_action_update(p) ==
    CASE p.action = "archive" ->
            Some([op |-> "$set", fields |-> [is_archived |-> TRUE, folder |-> "archive"]])
      [] p.action = "delete" ->
            Some([op |-> "$set", fields |-> [is_deleted |-> TRUE, folder |-> "trash"]])
      [] p.action = "mark_read" -> Some([op |-> "$set", fields |-> [is_read |-> TRUE]])
      [] p.action = "mark_unread" -> Some([op |-> "$set", fields |-> [is_read |-> FALSE]])
      [] p.action = "move_folder" /\ TruthyStr(p.folder) ->
            Some([op |-> "$set", fields |-> [folder |-> p.folder[1]]])
      [] p.action = "add_tag" /\ TruthyStr(p.tag) ->
            Some([op |-> "$addToSet", value |-> p.tag[1]])
      [] p.action = "remove_tag" /\ TruthyStr(p.tag) ->
            Some([op |-> "$pull", value |-> p.tag[1]])
      [] OTHER -> None

NoValidAction == [status |-> "ok", updated |-> 0, message |-> "No valid action provided"]

\* main.py:207-231.  A malformed id makes to_object_id raise before anything else;
\* store_ok = FALSE: update_many raises.
bulk_update(h, p, store_ok) ==
    LET r0 == NewRequest(p)
        ids == [i \in DOMAIN p.ids |-> to_object_id(p.ids[i])]
        update == bulk_action_update(p)
        result == update_many(emails, ids, update[1])
        r1 == [r0 EXCEPT !.wrote = TRUE,
                         !.result = [status |-> "ok", updated |-> result.modified_count]]
        ev == [type |-> "emails_updated", action |-> p.action,
               count |-> result.modified_count]
        b == broadcast(r1, ev, active_connections)
    IN  /\ req[h].pc = "idle"
        /\ nreq < MaxRequests
        /\ nreq' = nreq + 1
        /\ IF \E i \in DOMAIN p.ids : ~WellFormed(p.ids[i])
           THEN /\ req' = [req EXCEPT ![h] = raised(r0)]
                /\ UNCHANGED <<emails, active_connections>>
           ELSE IF update = None
           THEN /\ req' = [req EXCEPT ![h] = [r0 EXCEPT !.pc = "done",
                                                        !.response = NoValidAction]]
                /\ UNCHANGED <<emails, active_connections>>
           ELSE IF store_ok
           THEN /\ emails' = result.coll
                /\ req' = [req EXCEPT ![h] = b.req]
                /\ active_connections' = b.conns
           ELSE /\ req' = [req EXCEPT ![h] = store_raised(r0, ev, active_connections).req]
                /\ active_connections' = store_raised(r0, ev, active_connections).conns
                /\ UNCHANGED emails
        /\ UNCHANGED <<db, clock, ws>>

\* The response has gone to the caller; the slot serves the next request.
Return(h) ==
    /\ req[h].pc = "done"
    /\ req' = [req EXCEPT ![h] = Idle]
    /\ UNCHANGED <<emails, db, clock, active_connections, ws, nreq>>

\* main.py:157-182: the handler reads the store and answers.
ListEmails(h, p) ==
    /\ req[h].pc = "idle"
    /\ req' = [req EXCEPT ![h] = [Idle EXCEPT !.pc = "done", !.payload = p,
                                              !.response = list_emails(emails, p)]]
    /\ UNCHANGED <<emails, db, clock, active_connections, ws, nreq>>

\* ------------------------------------------------------------ tags, folders, events
\* A handler without a suspension point answers in one step.
Answered(p, response) == [Idle EXCEPT !.pc = "done", !.payload = p, !.response = response]

\* create_tag announcing the new tag on the realtime channel.
create_tag_notifies(h, p, store_ok) ==
    LET cd == create_document(db["tag"], p.data)
        r0 == Answered(p, [status |-> "ok", id |-> cd.inserted_id])
        b == broadcast([r0 EXCEPT !.result = r0.response, !.wrote = TRUE],
                       [type |-> "tag_created", id |-> cd.inserted_id], active_connections)
    IN  /\ req[h].pc = "idle"
        /\ store_ok /\ Len(db["tag"]) < MaxDocs
        /\ db' = [db EXCEPT !["tag"] = cd.coll]
        /\ req' = [req EXCEPT ![h] = b.req]
        /\ active_connections' = b.conns
        /\ UNCHANGED <<emails, clock, ws, nreq>>

\* The three create handlers, main.py:248-251, 265-268, 287-290: create_document on
\* collection c and {"id": ...}; store_ok = FALSE: create_document raises.
create_in(h, c, p, store_ok) ==
    LET cd == create_document(db[c], p.data)
    IN  /\ req[h].pc = "idle"
        /\ IF store_ok
           THEN /\ Len(db[c]) < MaxDocs
                /\ db' = [db EXCEPT ![c] = cd.coll]
                /\ req' = [req EXCEPT ![h] = Answered(p, [status |-> "ok",
                                                          id |-> cd.inserted_id])]
           ELSE /\ req' = [req EXCEPT ![h] = Answered(p, [status |-> "error"])]
                /\ UNCHANGED db
        /\ UNCHANGED <<emails, clock, active_connections, ws, nreq>>

create_tag(h, p, store_ok) == create_in(h, "tag", p, store_ok)
create_folder(h, p, store_ok) == create_in(h, "folder", p, store_ok)
create_event(h, p, store_ok) == create_in(h, "event", p, store_ok)

\* sort("starts_at", -1)
RECURSIVE sort_starts_desc(_)
sort_starts_desc(s) ==
    IF s = <<>> THEN <<>>
    ELSE LET i == CHOOSE i \in DOMAIN s :
                     \A j \in DOMAIN s :
                        \/ s[j]["starts_at"].utc < s[i]["starts_at"].utc
                        \/ (s[j]["starts_at"].utc = s[i]["starts_at"].utc /\ i <= j)
         IN  <<s[i]>> \o sort_starts_desc(SubSeq(s, 1, i - 1) \o SubSeq(s, i + 1, Len(s)))

\* The three list handlers, main.py:242-245, 259-262, 281-284; a negative limit is
\* taken as its absolute value by the driver.
list_docs(h, p, docs) ==
    /\ req[h].pc = "idle"
    /\ req' = [req EXCEPT ![h] = Answered(p, [status |-> "ok", items |-> serialize_all(docs)])]
    /\ UNCHANGED <<emails, db, clock, active_connections, ws, nreq>>

list_tags(h) == list_docs(h, [kind |-> "list_tags"], db["tag"])
list_folders(h) == list_docs(h, [kind |-> "list_folders"], db["folder"])
list_events(h, n) ==
    list_docs(h, [kind |-> "list_events", limit |-> n],
              limit(sort_starts_desc(db["event"]), IF n < 0 THEN -n ELSE n))

\* ------------------------------------------------------------ inputs
TxtHi == <<"H", "i">>
TxtAnn == <<"a", "n", "n">>
TxtBob == <<"b", "o", "b">>
TxtBody == <<"Z", "a", "p">>

EmailCreate(body, preview, tags) ==
    [kind |-> "create_email", subject |-> TxtHi, sender |-> TxtAnn, recipient |-> TxtBob,
     body |-> body, preview |-> preview, folder |-> "inbox", tags |-> tags,
     is_read |-> FALSE]

BulkAction(ids, action, folder, tag) ==
    [kind |-> "bulk_update", ids |-> ids, action |-> action, folder |-> folder, tag |-> tag]

\* Requests of the realtime specification: the fan-out is what varies there.
CreateInputs == {EmailCreate(None, None, <<>>)}
BulkInputs == {BulkAction(<<"id1">>, "mark_read", None, None)}

\* Requests of the store specification.
IdLists == {<<"id1">>, <<"id2", "id1">>, <<"id5">>, <<"id1", "bad">>}
StoreCreateInputs ==
    {EmailCreate(b, None, t) : b \in {None, Some(TxtBody)},
                               t \in {<<"vip">>, <<"urgent", "vip", "urgent">>}}
StoreBulkInputs ==
    {BulkAction(i, a, None, None) :
        i \in IdLists, a \in {"archive", "delete", "mark_read", "mark_unread", "bogus"}}
    \cup {BulkAction(i, "move_folder", f, None) :
        i \in IdLists, f \in {None, Some(""), Some("work")}}
    \cup {BulkAction(i, a, None, t) :
        i \in IdLists, a \in {"add_tag", "remove_tag"}, t \in {None, Some("urgent")}}
\* Requests of the preview specification: bodies that are absent, empty, short, of
\* exactly PreviewLen characters and longer, with previews absent, empty and given.
TxtExact == [i \in 1..PreviewLen |-> IF i % 2 = 1 THEN "a" ELSE "b"]
TxtLong == [i \in 1..(PreviewLen + 2) |-> IF i <= PreviewLen THEN "x" ELSE "y"]
PreviewInputs ==
    {EmailCreate(b, v, <<>>) :
        b \in {None, Some(<<>>), Some(TxtBody), Some(TxtExact), Some(TxtLong)},
        v \in {None, Some(<<>>), Some(TxtHi)}}
\* Requests of the handlers specification.
TagCreate == [kind |-> "create_tag", data |-> [name |-> "vip", color |-> "#60a5fa"]]
FolderCreate == [kind |-> "create_folder", data |-> [name |-> "work", icon |-> None]]
EventCreate ==
    [kind |-> "create_event",
     data |-> [title |-> "standup", starts_at |-> DateTime(1), ends_at |-> None,
               notes |-> None]]
HandlerBulkInputs ==
    {BulkAction(<<"id1">>, "mark_read", None, None),
     BulkAction(<<"id1">>, "move_folder", None, None),
     BulkAction(<<"bad">>, "archive", None, None)}
HandlerListInputs ==
    {[kind |-> "list_emails", q |-> None, folder |-> None, tag |-> None, is_read |-> None,
      page |-> 1, limit |-> DefaultLimit]}
ListInputs ==
    {[kind |-> "list_emails", q |-> q, folder |-> f, tag |-> t, is_read |-> r,
      page |-> pl[1], limit |-> pl[2]] :
        q \in {None, Some(<<"z">>)}, f \in {None, Some("trash")},
        t \in {None, Some("urgent")}, r \in {None, Some(FALSE)},
        pl \in {<<1, DefaultLimit>>, <<2, 1>>}}

\* ------------------------------------------------------------ specifications
Init ==
    /\ emails = <<>>
    /\ db = [c \in {"tag", "folder", "event"} |-> <<>>]
    /\ clock = 1
    /\ active_connections = <<>>
    /\ ws = [w \in W |-> [pc |-> "new", alive |-> TRUE, inbox |-> <<>>, found |-> FALSE]]
    /\ req = [h \in H |-> Idle]
    /\ nreq = 0

\* Websockets are numbered in the order they connect, and a request takes the
\* lowest free slot.
NextToConnect(w) == \A v \in 1..(w - 1) : ws[v].pc /= "new"
FreeSlot(h) == \A g \in 1..(h - 1) : req[g].pc /= "idle"

\* The realtime channel: websockets come and go while requests broadcast.
Next ==
    \/ \E w \in W : NextToConnect(w) /\ Accept(w)
    \/ \E w \in W : SendConnected(w)
    \/ \E w \in W : ClientDisconnect(w)
    \/ \E w \in W : Disconnect(w)
    \/ \E h \in H, p \in CreateInputs, ok \in BOOLEAN : FreeSlot(h) /\ create_email(h, p, ok)
    \/ \E h \in H, p \in BulkInputs, ok \in BOOLEAN : FreeSlot(h) /\ bulk_update(h, p, ok)
    \/ \E h \in H : BroadcastSend(h)

Spec == Init /\ [][Next]_vars

\* The mailbox: requests against the store, one at a time, no websocket open.
NextStore ==
    \/ \E p \in StoreCreateInputs, ok \in BOOLEAN : create_email(1, p, ok)
    \/ \E p \in StoreBulkInputs, ok \in BOOLEAN : bulk_update(1, p, ok)
    \/ \E p \in ListInputs : ListEmails(1, p)
    \/ Return(1)

SpecStore == Init /\ [][NextStore]_vars

\* Every handler of the API, one request at a time, with one websocket that comes
\* and goes.
NextHandlers ==
    \/ Accept(1)
    \/ SendConnected(1)
    \/ ClientDisconnect(1)
    \/ Disconnect(1)
    \/ \E p \in CreateInputs, ok \in BOOLEAN : create_email(1, p, ok)
    \/ \E p \in HandlerBulkInputs, ok \in BOOLEAN : bulk_update(1, p, ok)
    \/ BroadcastSend(1)
    \/ \E p \in HandlerListInputs : ListEmails(1, p)
    \/ \E ok \in BOOLEAN : create_tag(1, TagCreate, ok)
    \/ \E ok \in BOOLEAN : create_folder(1, FolderCreate, ok)
    \/ \E ok \in BOOLEAN : create_event(1, EventCreate, ok)
    \/ list_tags(1)
    \/ list_folders(1)
    \/ \E n \in {DefaultLimit, 0} : list_events(1, n)
    \/ Return(1)

SpecHandlers == Init /\ [][NextHandlers]_vars

\* The composer: emails are created one at a time from every shape of body and
\* preview.
NextCreate ==
    \/ \E p \in PreviewInputs, ok \in BOOLEAN : create_email(1, p, ok)
    \/ Return(1)

SpecCreate == Init /\ [][NextCreate]_vars

\* ------------------------------------------------------------ properties
Started(h) == req[h].pc /= "idle"
Done(h) == req[h].pc = "done"
Broadcasting(h) == req[h].emitted /= <<>>
\* How many frames of broadcast bid the client of w has received.
Received(w, bid) == Cardinality({i \in DOMAIN ws[w].inbox : ws[w].inbox[i].bid = bid})

\* C1: when a broadcast has ended, every websocket that was registered when it
\* began, is still registered and still has its client, has received the event of
\* that broadcast exactly once.
C1_ExactlyOnce ==
    \A h \in H :
        Done(h) /\ Broadcasting(h) =>
            \A w \in Range(req[h].snap) :
                Registered(w) /\ ws[w].alive => Received(w, req[h].bid) = 1

\* C2: a websocket whose delivery failed in a broadcast that has ended is neither in
\* the list as a broadcast that began afterwards found it, nor among the websockets
\* that later broadcast sends to, nor in the list now.
C2_FailedNotSeenLater ==
    \A h \in H :
        Done(h) =>
            /\ \A w \in Range(req[h].removable) : ~Registered(w)
            /\ \A g \in H :
                  req[h].bid \in req[g].after =>
                      Range(req[h].removable)
                          \cap (Range(req[g].snap) \cup Range(req[g].attempted)) = {}

\* A broadcast that began after another had ended with a failed delivery is under
\* way on a non-empty list.
C2_Witness ==
    \E h, g \in H :
        /\ Done(h) /\ req[h].removable /= <<>>
        /\ req[h].bid \in req[g].after
        /\ req[g].pc = "sending"

\* C3: when a broadcast has ended, every websocket that was registered when it began
\* and is still registered has had its delivery attempted, whichever deliveries
\* failed.
C3_SweepReachesAll ==
    \A h \in H :
        Done(h) /\ Broadcasting(h) =>
            \A w \in Range(req[h].snap) : Registered(w) => w \in Range(req[h].attempted)

\* C4: a websocket is registered once it has been sent its greeting, so that the
\* first frame a client receives is the greeting and never a broadcast event.
C4_GreetingFirst ==
    \A w \in W : ws[w].inbox /= <<>> => ws[w].inbox[1].event.type = "connected"

\* The store shows the write that event ev of request r reports.
StoreShows(r, ev) ==
    IF ev.type = "email_created"
    THEN \E i \in DOMAIN emails : oid_str(emails[i]["_id"]) = ev.email.id
    ELSE LET listed == {i \in DOMAIN emails : oid_str(emails[i]["_id"]) \in Range(r.payload.ids)}
         IN  /\ ev.count <= Cardinality(listed)
             /\ ev.count > 0 => \E i \in listed : emails[i]["is_read"] = TRUE

\* C5: a handler that has handed an event to broadcast has completed its store write
\* and the store shows it, as it does for every frame a client has received; a
\* handler whose store call raised has handed no event to broadcast.
C5_WriteBeforeNotify ==
    /\ \A h \in H :
          /\ Broadcasting(h) => req[h].wrote /\ StoreShows(req[h], req[h].emitted[1])
          /\ Done(h) /\ ~req[h].wrote => ~Broadcasting(h) /\ req[h].attempted = <<>>
    /\ \A w \in W : \A i \in DOMAIN ws[w].inbox :
          ws[w].inbox[i].bid /= 0 =>
              \E h \in H : /\ req[h].bid = ws[w].inbox[i].bid
                           /\ req[h].wrote
                           /\ StoreShows(req[h], ws[w].inbox[i].event)

\* A client has received the event of a write, and another request failed in the
\* store.
C5_Witness ==
    /\ \E w \in W : \E i \in DOMAIN ws[w].inbox : ws[w].inbox[i].bid /= 0
    /\ \E h \in H : Done(h) /\ ~req[h].wrote /\ req[h].response.status = "error"

\* The response the handler computes from the store once its write has succeeded.
FromStore(r) ==
    IF r.payload.kind = "create_email"
    THEN /\ r.response.status = "ok"
         /\ \E i \in DOMAIN emails :
               LET e == serialize_doc(emails[i])
               IN  /\ e.id = r.response.id
                   /\ \A k \in DOMAIN r.response.email \ {"is_read"} :
                         e[k] = r.response.email[k]
    ELSE /\ r.response.status = "ok"
         /\ r.response.updated = r.emitted[1].count

\* C6: a handler whose store write succeeded ends with the response computed from
\* the store, whichever deliveries of its broadcast failed; a broadcast that finds
\* the list empty sends nothing and marks nothing.
C6_BroadcastNeverRaises ==
    \A h \in H :
        /\ Done(h) /\ req[h].wrote => req[h].response = req[h].result /\ FromStore(req[h])
        /\ Broadcasting(h) /\ req[h].snap = <<>> =>
              Done(h) /\ req[h].attempted = <<>> /\ req[h].removable = <<>>

\* A handler has returned its response after a broadcast in which a delivery failed.
C6_Witness ==
    \E h \in H : Done(h) /\ req[h].wrote /\ req[h].removable /= <<>>
                 /\ req[h].response.status = "ok"

\* ------------------------------------------------------------ properties of the store
IsBulk(r) == r.payload.kind = "bulk_update"
IsList(r) == r.payload.kind = "list_emails"
AllWellFormed(p) == \A i \in DOMAIN p.ids : p.ids[i] \in {"id1", "id2", "id3", "id4", "id5"}
Listed(e, p) == oid_str(e["_id"]) \in Range(p.ids)

\* The bulk requests the handler answers as a no-op.
Incomplete(p) ==
    \/ p.action = "move_folder" /\ p.folder = None
    \/ p.action \in {"add_tag", "remove_tag"} /\ p.tag = None
    \/ p.action \notin {"archive", "delete", "mark_read", "mark_unread",
                        "move_folder", "add_tag", "remove_tag"}

IsNoOpResponse(resp) ==
    /\ resp.status = "ok"
    /\ DOMAIN resp = {"status", "updated", "message"}
    /\ resp.updated = 0
    /\ resp.message /= ""

\* Slot h takes a request and answers it in one step.
Answers(h) == req[h].pc = "idle" /\ req'[h].pc = "done"

\* C7 as stated: every bulk update with an incomplete or unrecognized action is
\* answered {updated: 0, message}, without a store write or an event.
C7_IncompleteIsNoOp ==
    \A h \in H :
        Done(h) /\ IsBulk(req[h]) /\ Incomplete(req[h].payload) =>
            /\ IsNoOpResponse(req[h].response)
            /\ ~req[h].wrote
            /\ ~Broadcasting(h)

\* C7, amended: a bulk update with an incomplete or unrecognized action is answered
\* {updated: 0, message} when all its ids are well-formed and with an error when
\* one is not; either way no email changes and no event is handed to broadcast.
C7_IncompleteIsNoOpOrError ==
    /\ [](\A h \in H :
            Done(h) /\ IsBulk(req[h]) /\ Incomplete(req[h].payload) =>
                /\ IF AllWellFormed(req[h].payload)
                   THEN IsNoOpResponse(req[h].response)
                   ELSE req[h].response = [status |-> "error"]
                /\ ~req[h].wrote
                /\ ~Broadcasting(h))
    /\ [][\A h \in H :
            Answers(h) /\ IsBulk(req'[h]) /\ Incomplete(req'[h].payload) =>
                /\ emails' = emails
                /\ active_connections' = active_connections
                /\ ws' = ws]_vars

\* A move_folder without a folder was answered as a no-op on a store that holds the
\* email it lists.
C7_Witness ==
    \E h \in H :
        /\ Done(h) /\ IsBulk(req[h])
        /\ req[h].payload.action = "move_folder" /\ req[h].payload.folder = None
        /\ \E i \in DOMAIN emails : Listed(emails[i], req[h].payload)
        /\ AllWellFormed(req[h].payload)
        /\ IsNoOpResponse(req[h].response)

IsDeleted(e) == "is_deleted" \in DOMAIN e /\ e["is_deleted"] = TRUE

\* C8: no item of a list_emails response is an email whose is_deleted flag is set,
\* whatever the filters.
C8_ListExcludesDeleted ==
    \A h \in H :
        Done(h) /\ IsList(req[h]) /\ req[h].response.status = "ok" =>
            \A n \in DOMAIN req[h].response.items :
                LET item == req[h].response.items[n]
                IN  /\ ~IsDeleted(item)
                    /\ \A i \in DOMAIN emails :
                          oid_str(emails[i]["_id"]) = item.id => ~IsDeleted(emails[i])

\* The store holds a deleted email and one that is not, and an unfiltered listing
\* of the first page came back with an item.
C8_Witness ==
    /\ \E i \in DOMAIN emails : IsDeleted(emails[i])
    /\ \E i \in DOMAIN emails : ~IsDeleted(emails[i])
    /\ \E h \in H :
          /\ Done(h) /\ IsList(req[h]) /\ req[h].response.status = "ok"
          /\ req[h].payload.q = None /\ req[h].payload.folder = None
          /\ req[h].payload.tag = None /\ req[h].payload.is_read = None
          /\ req[h].payload.page = 1 /\ req[h].payload.limit = DefaultLimit
          /\ req[h].response.items /= <<>>

\* The document e with field k set to v, every other field as it was.
WithField(e, k, v) == [x \in DOMAIN e \cup {k} |-> IF x = k THEN v ELSE e[x]]

\* The per-action policy of the five field-setting actions, on one email.
Policy(e, p) ==
    CASE p.action = "archive" -> WithField(WithField(e, "is_archived", TRUE), "folder", "archive")
      [] p.action = "delete" -> WithField(WithField(e, "is_deleted", TRUE), "folder", "trash")
      [] p.action = "mark_read" -> WithField(e, "is_read", TRUE)
      [] p.action = "mark_unread" -> WithField(e, "is_read", FALSE)
      [] p.action = "move_folder" -> WithField(e, "folder", p.folder[1])

SetsFields(p) ==
    \/ p.action \in {"archive", "delete", "mark_read", "mark_unread"}
    \/ p.action = "move_folder" /\ p.folder \notin {None, Some("")}

\* The store after the policy of p has been applied to the listed emails only.
Reference(coll, p) ==
    [i \in DOMAIN coll |-> IF Listed(coll[i], p) THEN Policy(coll[i], p) ELSE coll[i]]

\* C9: a bulk update of one of the five field-setting actions that the store carries
\* out leaves the store equal to the reference: the policy applied to the listed
\* emails, every other email and field unchanged.
C9_BulkMatchesReference ==
    [][\A h \in H :
          Answers(h) /\ IsBulk(req'[h]) /\ SetsFields(req'[h].payload) /\ req'[h].wrote =>
              emails' = Reference(emails, req'[h].payload)]_vars

\* An archive of the first email was carried out and changed it, and the store also
\* holds an unlisted email that is not archived.
C9_Witness ==
    \E h \in H :
        /\ Done(h) /\ IsBulk(req[h]) /\ req[h].wrote
        /\ req[h].payload.action = "archive" /\ req[h].payload.ids = <<"id1">>
        /\ req[h].response.updated = 1
        /\ Len(emails) = 2
        /\ "is_archived" \in DOMAIN emails[1] /\ emails[1]["folder"] = "archive"
        /\ "is_archived" \notin DOMAIN emails[2] /\ emails[2]["folder"] = "inbox"

TagUniverse == {"urgent", "vip", "new"}
Count(s, x) == Cardinality({i \in DOMAIN s : s[i] = x})
\* The tags of email e after the handler's update for action a with tag t.
TagsAfter(e, a, t) ==
    ApplyUpdate(e, bulk_action_update(BulkAction(<<>>, a, None, Some(t)))[1])["tags"]
WithTags(e, tags) == [e EXCEPT !["tags"] = tags]

\* C10: on every stored email and every tag t, add_tag leaves the tags as they are
\* when t is among them and appends t once otherwise, is idempotent and raises the
\* count of no tag above one; after remove_tag t is not among the tags and the
\* other tags keep their order; add_tag then remove_tag restores tags that lacked t.
\* And a bulk add_tag / remove_tag that the store carries out changes the tags of
\* the listed emails in that way and nothing else.
C10_TagSetSemantics ==
    /\ [](\A i \in DOMAIN emails : \A t \in TagUniverse :
            LET e == emails[i]
                tags == e["tags"]
                added == TagsAfter(e, "add_tag", t)
                removed == TagsAfter(e, "remove_tag", t)
            IN  /\ t \in Range(tags) => added = tags
                /\ t \notin Range(tags) => added = Append(tags, t)
                /\ TagsAfter(WithTags(e, added), "add_tag", t) = added
                /\ \A x \in TagUniverse : Count(added, x) <= IF Count(tags, x) = 0 THEN 1
                                                             ELSE Count(tags, x)
                /\ t \notin Range(removed)
                /\ removed = SelectSeq(tags, LAMBDA x : x /= t)
                /\ t \notin Range(tags) =>
                      TagsAfter(WithTags(e, added), "remove_tag", t) = tags)
    /\ [][\A h \in H :
            /\ Answers(h) /\ IsBulk(req'[h]) /\ req'[h].wrote
            /\ req'[h].payload.action \in {"add_tag", "remove_tag"}
            => /\ DOMAIN emails' = DOMAIN emails
               /\ \A i \in DOMAIN emails :
                     emails'[i] =
                        IF Listed(emails[i], req'[h].payload)
                        THEN WithTags(emails[i],
                                      IF req'[h].payload.action = "remove_tag"
                                      THEN SelectSeq(emails[i]["tags"],
                                                     LAMBDA x : x /= req'[h].payload.tag[1])
                                      ELSE IF req'[h].payload.tag[1] \in Range(emails[i]["tags"])
                                      THEN emails[i]["tags"]
                                      ELSE Append(emails[i]["tags"], req'[h].payload.tag[1]))
                        ELSE emails[i]]_vars

\* A bulk add_tag was carried out on an email that already had the tag and on one
\* that lacked it: the first is unchanged, the second has the tag appended.
C10_Witness ==
    \E h \in H :
        /\ Done(h) /\ IsBulk(req[h]) /\ req[h].wrote
        /\ req[h].payload.action = "add_tag" /\ req[h].payload.tag = Some("urgent")
        /\ req[h].response.updated = 1
        /\ \E i, j \in DOMAIN emails :
              /\ Listed(emails[i], req[h].payload) /\ Listed(emails[j], req[h].payload)
              /\ emails[i]["tags"] = <<"urgent", "vip", "urgent">>
              /\ emails[j]["tags"] = <<"vip", "urgent">>

\* The listed emails that the step changed.
Changed(p) == {i \in DOMAIN emails : Listed(emails[i], p) /\ emails'[i] /= emails[i]}

\* C11: a bulk update that the store carries out returns as `updated` the number of
\* listed emails whose stored state the step changed (not the number of ids, nor of
\* emails matched), and hands to broadcast one emails_updated event whose count is
\* that number and whose action is the requested action.
C11_UpdatedIsModifiedCount ==
    [][\A h \in H :
          Answers(h) /\ IsBulk(req'[h]) /\ req'[h].wrote =>
              /\ req'[h].response = [status |-> "ok",
                                     updated |-> Cardinality(Changed(req'[h].payload))]
              /\ req'[h].emitted =
                    <<[type |-> "emails_updated", action |-> req'[h].payload.action,
                       count |-> req'[h].response.updated]>>]_vars

\* A bulk add_tag on two ids that both match a stored email changed one of them
\* only (the other carried the tag): updated is 1 and so is the count of the event.
C11_Witness ==
    \E h \in H :
        /\ Done(h) /\ IsBulk(req[h]) /\ req[h].wrote
        /\ Len(req[h].payload.ids) = 2
        /\ \A n \in DOMAIN req[h].payload.ids :
              \E i \in DOMAIN emails : oid_str(emails[i]["_id"]) = req[h].payload.ids[n]
        /\ req[h].payload.action = "add_tag"
        /\ req[h].response.updated = 1
        /\ req[h].emitted[1].count = 1

IsCreate(r) == r.payload.kind = "create_email"
\* The email the step stored.
Stored == emails'[Len(emails')]
\* t is the first n characters of s, or all of s when it has fewer.
IsPrefixOfAtMost(t, s, n) ==
    /\ Len(t) = (IF Len(s) < n THEN Len(s) ELSE n)
    /\ \A i \in 1..Len(t) : t[i] = s[i]

\* C12 as stated, a preview or body being supplied when the field is not null: with
\* a body and no preview the stored preview is the first 140 characters of the body;
\* a supplied preview is stored unchanged; with neither, the preview stays null.
C12_PreviewFromBody ==
    [][\A h \in H :
          Answers(h) /\ IsCreate(req'[h]) /\ req'[h].wrote =>
              LET p == req'[h].payload
              IN  /\ p.preview /= None => Stored["preview"] = p.preview
                  /\ p.preview = None /\ p.body /= None =>
                        /\ Stored["preview"] /= None
                        /\ IsPrefixOfAtMost(Stored["preview"][1], p.body[1], 140)
                  /\ p.preview = None /\ p.body = None => Stored["preview"] = None]_vars

\* C12, amended: an empty string counts as not supplied.  With a non-empty body and
\* a preview that is null or empty the stored preview is the first 140 characters of
\* the body (all of it when shorter); a non-empty preview is stored unchanged; with
\* a body that is null or empty the preview is stored as it came, null or empty.
\* The body is stored unchanged in every case.
C12_PreviewFromNonEmptyBody ==
    [][\A h \in H :
          Answers(h) /\ IsCreate(req'[h]) /\ req'[h].wrote =>
              LET p == req'[h].payload
                  hasPreview == p.preview /= None /\ Len(p.preview[1]) > 0
                  hasBody == p.body /= None /\ Len(p.body[1]) > 0
              IN  /\ Len(emails') = Len(emails) + 1
                  /\ Stored["body"] = p.body
                  /\ hasPreview => Stored["preview"] = p.preview
                  /\ ~hasPreview /\ hasBody =>
                        /\ Stored["preview"] /= None
                        /\ IsPrefixOfAtMost(Stored["preview"][1], p.body[1], 140)
                  /\ ~hasPreview /\ ~hasBody => Stored["preview"] = p.preview]_vars

\* An email created from a body of more than 140 characters and no preview is
\* stored with a preview of 140 characters, next to one stored with the preview it
\* came with.
C12_Witness ==
    /\ \E i \in DOMAIN emails :
          /\ emails[i]["body"] /= None /\ Len(emails[i]["body"][1]) > 140
          /\ emails[i]["preview"] /= None /\ Len(emails[i]["preview"][1]) = 140
    /\ \E i \in DOMAIN emails :
          /\ emails[i]["body"] = Some(TxtBody) /\ emails[i]["preview"] = Some(TxtHi)

\* The list without the websockets of set S, the others in their order.
Without(conns, S) == SelectSeq(conns, LAMBDA x : x \notin S)
\* The endpoint of w returns in this step; the broadcast of h ends in this step.
EndpointReturns(w) == ws[w].pc /= "closed" /\ ws'[w].pc = "closed"
BroadcastEnds(h) == req[h].pc /= "done" /\ req'[h].pc = "done" /\ req'[h].emitted /= <<>>

\* C13: unregistering is idempotent.  When an endpoint returns, the list loses that
\* websocket and nothing else, and is unchanged when the websocket was already
\* absent; when a broadcast ends, the list loses the websockets it marked and
\* nothing else, those already absent making no difference, and the handler still
\* returns its response; whichever of the two unregisters a websocket first, it is
\* absent from the list once both have run.
C13_UnregisterIdempotent ==
    /\ [](\A w \in W : \A h \in H :
            ws[w].pc = "closed" \/ (Done(h) /\ w \in Range(req[h].removable)) =>
                ~Registered(w))
    /\ [][/\ \A w \in W :
               EndpointReturns(w) =>
                   /\ active_connections' = Without(active_connections, {w})
                   /\ ~Registered(w) => active_connections' = active_connections
          /\ \A h \in H :
               BroadcastEnds(h) =>
                   /\ active_connections' =
                         Without(active_connections, Range(req'[h].removable))
                   /\ Range(req'[h].removable) \cap Range(active_connections) = {} =>
                         active_connections' = active_connections
                   /\ req'[h].response = req'[h].result
                   /\ req'[h].response.status = "ok"]_vars

\* Both orders have happened: a broadcast ended whose removal loop did not find a
\* websocket it had marked, the endpoint having removed it first, and removed
\* another one whose endpoint then found it absent.
C13_Witness ==
    \E h \in H : \E w, v \in W :
        /\ Done(h) /\ w \in req[h].absent
        /\ v \in Range(req[h].removable) \ req[h].absent
        /\ ws[w].pc = "closed" /\ ws[w].found
        /\ ws[v].pc = "closed" /\ ~ws[v].found

\* The bulk requests whose action is one of the seven and comes with the parameter
\* it needs.
ValidAction(p) ==
    \/ p.action \in {"archive", "delete", "mark_read", "mark_unread"}
    \/ p.action = "move_folder" /\ p.folder /= None /\ p.folder /= Some("")
    \/ p.action \in {"add_tag", "remove_tag"} /\ p.tag /= None /\ p.tag /= Some("")
Completed(h) == Done(h) /\ req[h].response.status = "ok"
Silent(r) ==
    r.payload.kind \in {"create_tag", "create_folder", "create_event", "list_tags",
                        "list_folders", "list_events", "list_emails"}
\* The events request r has handed to broadcast are exactly one, of type t.
OneEvent(r, t) == Len(r.emitted) = 1 /\ r.emitted[1].type = t

\* C14 as stated: a create_email that has completed has handed exactly one
\* email_created event to broadcast, every bulk_update with a valid action that has
\* ended exactly one emails_updated event, and create_tag, create_folder,
\* create_event and the list handlers none.
C14_OneEventPerMutation ==
    \A h \in H :
        /\ Completed(h) /\ IsCreate(req[h]) => OneEvent(req[h], "email_created")
        /\ Done(h) /\ IsBulk(req[h]) /\ ValidAction(req[h].payload) =>
              OneEvent(req[h], "emails_updated")
        /\ Started(h) /\ Silent(req[h]) => req[h].emitted = <<>>

\* C14, amended: as stated, for the bulk_update invocations with a valid action
\* that complete; and no handler hands more than one event at any time.
C14_OneEventPerCompletedMutation ==
    \A h \in H :
        /\ Len(req[h].emitted) <= 1
        /\ Completed(h) /\ IsCreate(req[h]) => OneEvent(req[h], "email_created")
        /\ Completed(h) /\ IsBulk(req[h]) /\ ValidAction(req[h].payload) =>
              OneEvent(req[h], "emails_updated")
        /\ Started(h) /\ Silent(req[h]) => req[h].emitted = <<>>

\* A tag, a folder and an event have been created, the websocket is registered and
\* has received one event from a mutation, and a create_tag that has just been
\* answered handed nothing to broadcast.
C14_Witness ==
    /\ \A c \in DOMAIN db : db[c] /= <<>>
    /\ Registered(1) /\ \E i \in DOMAIN ws[1].inbox : ws[1].inbox[i].bid /= 0
    /\ Completed(1) /\ req[1].payload.kind = "create_tag" /\ req[1].emitted = <<>>

\* Some handler has detected that w is gone: its endpoint has returned, or a
\* broadcast has caught the exception of a send to it.
Detected(w) == ws[w].pc = "closed" \/ \E h \in H : w \in Range(req[h].removable)
\* w leaves the list in this step.
Unregisters(w) == Registered(w) /\ w \notin Range(active_connections')

\* C15 as stated: a websocket whose disconnect or delivery failure a handler has
\* detected is unregistered at once, with no suspension point in between, so in no
\* state is it detected and still registered.
C15_UnregisteredOnDetection ==
    \A w \in W : Detected(w) => ~Registered(w)

\* C15, amended: an endpoint that detects the disconnect unregisters its websocket in
\* the same step; a broadcast that detects a delivery failure marks the websocket
\* and unregisters it when its sweep has ended, in the step in which the sweep
\* ends, so that a websocket marked by a broadcast that has ended is not
\* registered; and a websocket is unregistered by no other step than these two.
C15_UnregisteredByDetector ==
    /\ [](\A w \in W :
            /\ ws[w].pc = "closed" => ~Registered(w)
            /\ \A h \in H : Done(h) /\ w \in Range(req[h].removable) => ~Registered(w))
    /\ [][\A w \in W :
            /\ EndpointReturns(w) => w \notin Range(active_connections')
            /\ \A h \in H :
                  BroadcastEnds(h) /\ w \in Range(req'[h].removable) =>
                      w \notin Range(active_connections')
            /\ Unregisters(w) =>
                  \/ EndpointReturns(w)
                  \/ \E h \in H : BroadcastEnds(h) /\ w \in Range(req'[h].removable)]_vars

\* A broadcast marked the first websocket it sent to, went on to send to another
\* one and removed the marked one when it ended; and an endpoint has detected
\* the disconnect of its websocket and removed it itself.
C15_Witness ==
    \E h \in H : \E w, v \in W :
        /\ Done(h) /\ Len(req[h].attempted) >= 2
        /\ req[h].attempted[1] = v /\ req[h].removable = <<v>> /\ req[h].absent = {}
        /\ ws[w].pc = "closed" /\ ws[w].found

\* C16: a broadcast iterates the list as it was when the broadcast began: every
\* websocket it sends to was in the list then, and when it has ended it has
\* attempted delivery to exactly the websockets that were in the list then,
\* whatever was registered or unregistered while it was suspended.
C16_IteratesSnapshot ==
    \A h \in H :
        Broadcasting(h) =>
            /\ req[h].pc = "sending" => req[h].cur \in Range(req[h].snap)
            /\ Range(req[h].attempted) \subseteq Range(req[h].snap)
            /\ Done(h) => Range(req[h].attempted) = Range(req[h].snap)

\* Request h takes a step of its broadcast; the client of w receives a frame in
\* this step.
BroadcastStep(h) == req'[h] /= req[h] /\ req'[h].emitted /= <<>>
Delivered(w) == ws'[w].inbox /= ws[w].inbox

\* C17: a broadcast marks a websocket exactly when the send to it failed, and
\* removes from the list the websockets it marked and no other: a websocket that
\* received the event, and one the broadcast did not send to, stays in the list
\* through every step of the broadcast, in its place among the others.
C17_EvictsOnlyFailed ==
    /\ [](\A h \in H : \A w \in Range(req[h].removable) :
            w \in Range(req[h].attempted) /\ Received(w, req[h].bid) = 0)
    /\ [][\A h \in H :
            BroadcastStep(h) =>
                /\ req[h].pc = "sending" =>
                      (Delivered(req[h].cur) <=> req[h].cur \notin Range(req'[h].removable))
                /\ \A v \in W :
                      v \notin Range(req'[h].removable) /\ v /= req[h].cur =>
                          ws'[v] = ws[v]
                /\ \A v \in W : Unregisters(v) => v \in Range(req'[h].removable)
                /\ BroadcastEnds(h) =>
                      \A v \in Range(req'[h].removable) : v \notin Range(active_connections')
                /\ ~BroadcastEnds(h) => active_connections' = active_connections
                /\ active_connections' =
                      Without(active_connections,
                              Range(active_connections) \ Range(active_connections'))]_vars

\* A broadcast that sent to two websockets has ended: the one that received the
\* event is still registered, the one whose send failed was removed by it.
C17_Witness ==
    \E h \in H : \E w, v \in W :
        /\ Done(h) /\ Range(req[h].attempted) = {w, v}
        /\ Received(w, req[h].bid) = 1 /\ Registered(w)
        /\ req[h].removable = <<v>> /\ req[h].absent = {} /\ ~Registered(v)
        /\ ws[v].pc /= "closed"

\* The endpoint of w has appended it to the list (main.py:68) at some time.
WasRegistered(w) == ws[w].pc /= "new"

\* C18: the list holds no websocket twice and none that has not been accepted, and
\* a websocket that has left the list, removed by its endpoint or by a broadcast,
\* never enters it again.
C18_RegisteredAtMostOnce ==
    /\ [](/\ \A i, j \in DOMAIN active_connections :
                active_connections[i] = active_connections[j] => i = j
          /\ \A w \in Range(active_connections) : WasRegistered(w))
    /\ [][\A w \in W :
            WasRegistered(w) /\ ~Registered(w) => w \notin Range(active_connections')]_vars

\* One websocket has been evicted by a broadcast while its endpoint still waits in
\* receive_text, and another has been removed by its own endpoint: both are out of
\* the list.
C18_Witness ==
    \E h \in H : \E w, v \in W :
        /\ w /= v
        /\ Done(h) /\ w \in Range(req[h].removable) \ req[h].absent
        /\ ws[w].pc = "receiving" /\ ~Registered(w)
        /\ ws[v].pc = "closed" /\ ws[v].found

\* The identifiers of the stored emails.
StoredIds(coll) == {coll[i]["_id"] : i \in DOMAIN coll}

\* C19: no step removes an email from the store or changes its identifier, so the
\* set of stored identifiers only grows, and an email whose is_deleted flag is
\* true keeps it true through every create_email and bulk_update, archive and
\* move_folder on that email included.
C19_SoftDeleteIrreversible ==
    [][/\ StoredIds(emails) \subseteq StoredIds(emails')
       /\ Len(emails') >= Len(emails)
       /\ \A i \in DOMAIN emails :
             /\ emails'[i]["_id"] = emails[i]["_id"]
             /\ IsDeleted(emails[i]) => IsDeleted(emails'[i])]_vars

\* A deleted email has since been archived or moved to another folder by a bulk
\* update that changed it (it is no longer in folder "trash"), and is still deleted.
C19_Witness ==
    \E h \in H : \E i \in DOMAIN emails :
        /\ Done(h) /\ IsBulk(req[h]) /\ req[h].wrote
        /\ req[h].payload.action \in {"archive", "move_folder"}
        /\ req[h].response.updated >= 1
        /\ Listed(emails[i], req[h].payload)
        /\ IsDeleted(emails[i]) /\ emails[i]["folder"] \in {"archive", "work"}
====
